---- MODULE Spec2Model ----
(***************************************************************************)
(* Model of conversion_wiz (src/conversion_wiz/src/lib.rs): the unit       *)
(* registry (name_to_units, aliases_to_name), the edge table (edges) and   *)
(* the operations add_unit, add_edge, convert, contains_unit and           *)
(* units_formatted of ConversionGraph.                                     *)
(*                                                                         *)
(* f64 values are modelled as exact rationals <<n, d>> in lowest terms     *)
(* with d > 0.  HashMap iteration order (the BFS neighbour order, the      *)
(* order of units_formatted) is a nondeterministic choice.                 *)
(***************************************************************************)
EXTENDS Integers, Sequences, FiniteSets, TLC

VARIABLES name_to_units, aliases_to_name, edges, called, result, edge_calls,
          search

vars == <<name_to_units, aliases_to_name, edges, called, result, edge_calls,
          search>>

graph == <<name_to_units, aliases_to_name, edges>>

----------------------------------------------------------------------------
(* Bounds of the model *)

\* longest alias list passed to add_unit (registry specification)
MaxAliases == 2
\* largest value passed to convert
MaxValue == 1
\* number of add_edge calls the driver makes
MaxEdgeCalls == 3
\* number of add_scale_edge calls the driver makes
MaxScaleEdgeCalls == 4

\* the non-empty strings the driver passes as names, aliases and tokens
Names == {"A", "B", "C"}

Strings == Names \cup {""}

\* the names of four units, for graphs with two routes between two units
MoreNames == Names \cup {"D"}

AliasLists == UNION {[1..n -> Strings] : n \in 0..MaxAliases}

\* alias lists of at most one alias (graph specification)
SingleAliasLists == {<<>>} \cup {<<s>> : s \in Names}

----------------------------------------------------------------------------
(* Exact arithmetic on rationals <<n, d>> *)

Abs(n) == IF n < 0 THEN -n ELSE n

RECURSIVE GCD(_, _)
GCD(a, b) == IF b = 0 THEN a ELSE GCD(b, a % b)

Rat(n, d) ==
    LET g == GCD(Abs(n), Abs(d))
        s == IF d < 0 THEN -1 ELSE 1
    IN  <<(s * n) \div g, (s * d) \div g>>

Zero == <<0, 1>>
One == <<1, 1>>

RMul(x, y) == Rat(x[1] * y[1], x[2] * y[2])
RAdd(x, y) == Rat(x[1] * y[2] + y[1] * x[2], x[2] * y[2])
RNeg(x) == <<-x[1], x[2]>>
RDiv(x, y) == Rat(x[1] * y[2], x[2] * y[1])

Two == <<2, 1>>

Scales == {Zero, One, Two}
Offsets == {Zero, One}
Values == {<<n, 1>> : n \in 1..MaxValue}
\* the scales of the edges added while convert is followed step by step
StepScales == {Two}

----------------------------------------------------------------------------
(* Return values *)

NoList == <<>>

Ok == [tag |-> "Ok", s1 |-> "", s2 |-> "", val |-> Zero, list |-> NoList]
OkVal(v) == [tag |-> "Ok", s1 |-> "", s2 |-> "", val |-> v, list |-> NoList]
OkList(l) == [tag |-> "Ok", s1 |-> "", s2 |-> "", val |-> Zero, list |-> l]
OkBool(b) == [tag |-> IF b THEN "true" ELSE "false", s1 |-> "", s2 |-> "",
              val |-> Zero, list |-> NoList]
Err(e) == [tag |-> e, s1 |-> "", s2 |-> "", val |-> Zero, list |-> NoList]
Err1(e, a) == [tag |-> e, s1 |-> a, s2 |-> "", val |-> Zero, list |-> NoList]
Err2(e, a, b) == [tag |-> e, s1 |-> a, s2 |-> b, val |-> Zero, list |-> NoList]

----------------------------------------------------------------------------
(* Unit *)

Contains(seq, x) == \E i \in 1..Len(seq) : seq[i] = x

\* faulty variant of UnitNew: the name is not added to the aliases
UnitNewWithoutName(name, aliases, intermediate) ==
    IF name = "" THEN [err |-> Err("EmptyUnitName")]
    ELSE IF Contains(aliases, "") THEN [err |-> Err("EmptyAlias")]
    ELSE [err |-> Ok,
          unit |-> [name |-> name, aliases |-> aliases,
                    intermediate |-> intermediate]]

UnitNew(name, aliases, intermediate) ==
    IF name = "" THEN [err |-> Err("EmptyUnitName")]
    ELSE IF Contains(aliases, "") THEN [err |-> Err("EmptyAlias")]
    ELSE [err |-> Ok,
          unit |-> [name |-> name,
                    aliases |-> IF Contains(aliases, name) THEN aliases
                                ELSE Append(aliases, name),
                    intermediate |-> intermediate]]

RECURSIVE Join(_, _)
Join(seq, sep) ==
    IF Len(seq) = 0 THEN <<>>
    ELSE IF Len(seq) = 1 THEN <<seq[1]>>
    ELSE <<seq[1], sep>> \o Join(Tail(seq), sep)

\* a display string is the sequence of the pieces pushed onto it
format_string(unit) ==
    IF Len(unit.aliases) # 0
    THEN <<unit.name, " (">> \o Join(unit.aliases, ", ") \o <<")">>
    ELSE <<unit.name>>

----------------------------------------------------------------------------
(* ConversionGraph *)

\* the locals of a convert call that is running step by step; pushed lists
\* the units given to queue.push_back, in order; Idle when no call is running
Idle ==
    [pc |-> "idle", from |-> "", to |-> "", value |-> Zero,
     queue |-> <<>>, visited |-> {}, parents |-> <<>>, pushed |-> <<>>,
     current_unit |-> "", stack |-> <<>>, cur_value |-> Zero]

Init ==
    /\ name_to_units = <<>>
    /\ aliases_to_name = <<>>
    /\ edges = <<>>
    /\ called = "new"
    /\ result = Ok
    /\ edge_calls = 0
    /\ search = Idle

Put(m, k, v) == [x \in DOMAIN m \cup {k} |-> IF x = k THEN v ELSE m[x]]

\* the loop of add_unit over unit.aliases(), from index i on
RECURSIVE InsertAliases(_, _, _, _)
InsertAliases(a2n, aliases, i, name) ==
    IF i > Len(aliases) THEN [a2n |-> a2n, err |-> Ok]
    ELSE IF aliases[i] \in DOMAIN a2n
         THEN [a2n |-> a2n, err |-> Err1("DuplicateAlias", aliases[i])]
         ELSE InsertAliases(Put(a2n, aliases[i], name), aliases, i + 1, name)

\* what add_unit(name, aliases, intermediate) returns on the registry
\* (n2u, a2n), and the registry it leaves
AddUnitOutcome(n2u, a2n, name, aliases, intermediate) ==
    IF name = ""
    THEN [name_to_units |-> n2u, aliases_to_name |-> a2n,
          result |-> Err("EmptyUnitName")]
    ELSE IF name \in DOMAIN n2u
    THEN [name_to_units |-> n2u, aliases_to_name |-> a2n,
          result |-> Err1("DuplicateUnit", name)]
    ELSE LET u == UnitNew(name, aliases, intermediate) IN
         IF u.err # Ok
         THEN [name_to_units |-> n2u, aliases_to_name |-> a2n, result |-> u.err]
         ELSE LET r == InsertAliases(a2n, u.unit.aliases, 1, name) IN
              [name_to_units |-> IF r.err # Ok THEN n2u
                                 ELSE Put(n2u, name, u.unit),
               aliases_to_name |-> r.a2n,
               result |-> r.err]

add_unit(name, aliases, intermediate) ==
    LET o == AddUnitOutcome(name_to_units, aliases_to_name,
                            name, aliases, intermediate)
    IN  /\ search.pc = "idle"
        /\ called' = "add_unit"
        /\ name_to_units' = o.name_to_units
        /\ aliases_to_name' = o.aliases_to_name
        /\ result' = o.result
        /\ UNCHANGED <<edges, edge_calls, search>>

\* what contains_unit(name) returns on the alias index a2n
ContainsUnitOutcome(a2n, name) == OkBool(name \in DOMAIN a2n)

contains_unit(name) ==
    /\ called' = "contains_unit"
    /\ UNCHANGED <<edge_calls, search>>
    /\ result' = ContainsUnitOutcome(aliases_to_name, name)
    /\ UNCHANGED graph

ConversionFactor(scale, offset) == [scale |-> scale, offset |-> offset]

\* faulty variant of EnsureEntry: an empty map replaces the one already there
EnsureEntryReset(e, n) == Put(e, n, <<>>)

\* edges.entry(n).or_insert_with(HashMap::new)
EnsureEntry(e, n) == IF n \in DOMAIN e THEN e ELSE Put(e, n, <<>>)

\* faulty variant of RateCheck: the test of scale and offset together is
\* missing
RateCheckZeroOnly(scale, offset) ==
    IF scale = Zero THEN Err("ConversionRateZero")
    ELSE Ok

\* faulty variant of RateCheck: the two checks in the other order
RateCheckSwapped(scale, offset) ==
    IF scale # One /\ offset # Zero THEN Err("ConversionRateBothValues")
    ELSE IF scale = Zero THEN Err("ConversionRateZero")
    ELSE Ok

\* the two rate checks that open add_edge
RateCheck(scale, offset) ==
    IF scale = Zero THEN Err("ConversionRateZero")
    ELSE IF scale # One /\ offset # Zero THEN Err("ConversionRateBothValues")
    ELSE Ok

\* faulty variant of OppositeConversion: the offset keeps its sign
OppositeConversionSameOffset(scale, offset) ==
    ConversionFactor(RDiv(One, scale), offset)

OppositeConversion(scale, offset) ==
    ConversionFactor(RDiv(One, scale), RNeg(offset))

\* faulty variant of AddEdgeOutcome: the adjacency entry of from is created
\* before to is looked up
AddEdgeOutcomeEntryFirst(a2n, e, from, to, scale, offset) ==
    IF RateCheck(scale, offset) # Ok
    THEN [edges |-> e, result |-> RateCheck(scale, offset)]
    ELSE IF from \notin DOMAIN a2n
    THEN [edges |-> e, result |-> Err1("UnitNotFound", from)]
    ELSE IF to \notin DOMAIN a2n
    THEN [edges |-> EnsureEntry(e, a2n[from]),
          result |-> Err1("UnitNotFound", to)]
    ELSE LET from_name == a2n[from]
             to_name == a2n[to]
             e1 == EnsureEntry(EnsureEntry(e, from_name), to_name)
             conversion == ConversionFactor(scale, offset)
             opposite_conversion == OppositeConversion(scale, offset)
             e2 == [e1 EXCEPT ![from_name] = Put(@, to_name, conversion)]
             e3 == [e2 EXCEPT ![to_name] = Put(@, from_name, opposite_conversion)]
         IN  [edges |-> e3, result |-> Ok]

\* what add_edge(from, to, scale, offset) returns on the graph (a2n, e), and
\* the edge table it leaves
AddEdgeOutcome(a2n, e, from, to, scale, offset) ==
    IF RateCheck(scale, offset) # Ok
    THEN [edges |-> e, result |-> RateCheck(scale, offset)]
    ELSE IF from \notin DOMAIN a2n
    THEN [edges |-> e, result |-> Err1("UnitNotFound", from)]
    ELSE IF to \notin DOMAIN a2n
    THEN [edges |-> e, result |-> Err1("UnitNotFound", to)]
    ELSE LET from_name == a2n[from]
             to_name == a2n[to]
             e1 == EnsureEntry(EnsureEntry(e, from_name), to_name)
             conversion == ConversionFactor(scale, offset)
             opposite_conversion == OppositeConversion(scale, offset)
             e2 == [e1 EXCEPT ![from_name] = Put(@, to_name, conversion)]
             e3 == [e2 EXCEPT ![to_name] = Put(@, from_name, opposite_conversion)]
         IN  [edges |-> e3, result |-> Ok]

add_edge(from, to, scale, offset) ==
    LET o == AddEdgeOutcome(aliases_to_name, edges, from, to, scale, offset)
    IN  /\ search.pc = "idle"
        /\ called' = "add_edge"
        /\ edge_calls < MaxEdgeCalls
        /\ edge_calls' = edge_calls + 1
        /\ edges' = o.edges
        /\ result' = o.result
        /\ UNCHANGED <<name_to_units, aliases_to_name, search>>

\* add_scale_edge(from, to, scale) is add_edge(from, to, scale, 0.0)
add_scale_edge(from, to, scale) ==
    LET o == AddEdgeOutcome(aliases_to_name, edges, from, to, scale, Zero)
    IN  /\ search.pc = "idle"
        /\ called' = "add_scale_edge"
        /\ edge_calls < MaxScaleEdgeCalls
        /\ edge_calls' = edge_calls + 1
        /\ edges' = o.edges
        /\ result' = o.result
        /\ UNCHANGED <<name_to_units, aliases_to_name, search>>

\* the orders in which a HashMap may yield the keys in S
Orders(S) ==
    {f \in [1..Cardinality(S) -> S] :
        \A i, j \in 1..Cardinality(S) : i # j => f[i] # f[j]}

\* faulty variant of BFS: the source is recorded as the parent of every unit
RECURSIVE BFSParentIsSource(_, _, _, _, _)
BFSParentIsSource(e, queue, visited, parents, to_name) ==
    IF queue = <<>> THEN {parents}
    ELSE LET current_unit == Head(queue)
             source == CHOOSE x \in visited : x \notin DOMAIN parents
         IN
         IF current_unit = to_name THEN {parents}
         ELSE IF current_unit \in DOMAIN e
         THEN LET new == DOMAIN e[current_unit] \ visited IN
              UNION {BFSParentIsSource(e, Tail(queue) \o ord, visited \cup new,
                         [x \in DOMAIN parents \cup new |->
                             IF x \in new THEN source ELSE parents[x]],
                         to_name) : ord \in Orders(new)}
         ELSE BFSParentIsSource(e, Tail(queue), visited, parents, to_name)

\* the BFS loop of convert: the parent maps it can end with
RECURSIVE BFS(_, _, _, _, _)
BFS(e, queue, visited, parents, to_name) ==
    IF queue = <<>> THEN {parents}
    ELSE LET current_unit == Head(queue) IN
         IF current_unit = to_name THEN {parents}
         ELSE IF current_unit \in DOMAIN e
         THEN LET new == DOMAIN e[current_unit] \ visited IN
              UNION {BFS(e, Tail(queue) \o ord, visited \cup new,
                         [x \in DOMAIN parents \cup new |->
                             IF x \in new THEN current_unit ELSE parents[x]],
                         to_name) : ord \in Orders(new)}
         ELSE BFS(e, Tail(queue), visited, parents, to_name)

\* faulty variant of CollectFactors: the factor of the pair child -> parent
\* is pushed
RECURSIVE CollectFactorsChildToParent(_, _, _)
CollectFactorsChildToParent(e, parents, current_unit) ==
    IF current_unit \notin DOMAIN parents THEN [err |-> Ok, stack |-> <<>>]
    ELSE LET parent_unit == parents[current_unit] IN
         IF current_unit \in DOMAIN e /\ parent_unit \in DOMAIN e[current_unit]
         THEN LET rest == CollectFactorsChildToParent(e, parents, parent_unit) IN
              [err |-> rest.err,
               stack |-> <<e[current_unit][parent_unit]>> \o rest.stack]
         ELSE [err |-> Err("MissingConversionFactor"), stack |-> <<>>]

\* the parent-chain walk of convert: the factors pushed on the stack
RECURSIVE CollectFactors(_, _, _)
CollectFactors(e, parents, current_unit) ==
    IF current_unit \notin DOMAIN parents THEN [err |-> Ok, stack |-> <<>>]
    ELSE LET parent_unit == parents[current_unit] IN
         IF parent_unit \in DOMAIN e /\ current_unit \in DOMAIN e[parent_unit]
         THEN LET rest == CollectFactors(e, parents, parent_unit) IN
              [err |-> rest.err,
               stack |-> <<e[parent_unit][current_unit]>> \o rest.stack]
         ELSE [err |-> Err("MissingConversionFactor"), stack |-> <<>>]

\* faulty variant of ApplyFactors: the factors applied in the order collected
RECURSIVE ApplyFactorsTargetFirst(_, _)
ApplyFactorsTargetFirst(stack, cur_value) ==
    IF stack = <<>> THEN cur_value
    ELSE LET factor == stack[1] IN
         ApplyFactorsTargetFirst(Tail(stack),
                      RAdd(RMul(cur_value, factor.scale), factor.offset))

\* the pop loop of convert
RECURSIVE ApplyFactors(_, _)
ApplyFactors(stack, cur_value) ==
    IF stack = <<>> THEN cur_value
    ELSE LET factor == stack[Len(stack)] IN
         ApplyFactors(SubSeq(stack, 1, Len(stack) - 1),
                      RAdd(RMul(cur_value, factor.scale), factor.offset))

\* faulty variant of SameUnit: the tokens are compared, not the names
SameToken(a2n, from, to) == from = to

\* the identity test of convert
SameUnit(a2n, from, to) == a2n[from] = a2n[to]

\* faulty variant of PathNotFound: the canonical names are reported
PathNotFoundByName(a2n, from, to) ==
    Err2("ConversionPathNotFound", a2n[from], a2n[to])

\* the error convert returns when the BFS did not reach the target
PathNotFound(a2n, from, to) == Err2("ConversionPathNotFound", from, to)

\* what convert(from, to, value) can return on the graph (a2n, e)
ConvertOutcomes(a2n, e, from, to, value) ==
    IF from \notin DOMAIN a2n THEN {Err1("UnitNotFound", from)}
    ELSE IF to \notin DOMAIN a2n THEN {Err1("UnitNotFound", to)}
    ELSE LET from_name == a2n[from]
             to_name == a2n[to]
         IN  IF SameUnit(a2n, from, to) THEN {OkVal(value)}
             ELSE {IF to_name \notin DOMAIN parents
                   THEN PathNotFound(a2n, from, to)
                   ELSE LET c == CollectFactors(e, parents, to_name) IN
                        IF c.err # Ok THEN c.err
                        ELSE OkVal(ApplyFactors(c.stack, value)) :
                   parents \in BFS(e, <<from_name>>, {from_name}, <<>>, to_name)}

convert(from, to, value) ==
    /\ called' = "convert"
    /\ UNCHANGED <<edge_calls, search>>
    /\ result' \in ConvertOutcomes(aliases_to_name, edges, from, to, value)
    /\ UNCHANGED graph

\* a running convert call returns r
Return(r) ==
    /\ called' = "convert"
    /\ result' = r
    /\ search' = Idle

\* faulty variant of Unvisited: the visited map is not consulted
UnvisitedAll(e, current_unit, visited) ==
    IF current_unit \in DOMAIN e THEN DOMAIN e[current_unit] ELSE {}

\* the neighbours of current_unit that the for loop of the BFS pushes
Unvisited(e, current_unit, visited) ==
    IF current_unit \in DOMAIN e THEN DOMAIN e[current_unit] \ visited ELSE {}

\* convert, step by step: the call, up to the first pop of the queue
convert_call(from, to, value) ==
    /\ search.pc = "idle"
    /\ UNCHANGED <<graph, edge_calls>>
    /\ IF from \notin DOMAIN aliases_to_name
       THEN Return(Err1("UnitNotFound", from))
       ELSE IF to \notin DOMAIN aliases_to_name
       THEN Return(Err1("UnitNotFound", to))
       ELSE IF SameUnit(aliases_to_name, from, to)
       THEN Return(OkVal(value))
       ELSE LET from_name == aliases_to_name[from] IN
            /\ search' = [Idle EXCEPT !.pc = "bfs", !.from = from, !.to = to,
                                      !.value = value,
                                      !.queue = <<from_name>>,
                                      !.visited = {from_name},
                                      !.pushed = <<from_name>>]
            /\ UNCHANGED <<called, result>>

\* one iteration of the BFS loop, or its exit and the test that follows it
bfs_step ==
    /\ search.pc = "bfs"
    /\ UNCHANGED <<graph, edge_calls>>
    /\ LET to_name == aliases_to_name[search.to] IN
       IF search.queue = <<>> \/ Head(search.queue) = to_name
       THEN IF to_name \notin DOMAIN search.parents
            THEN Return(PathNotFound(aliases_to_name, search.from, search.to))
            ELSE /\ search' = [search EXCEPT !.pc = "walk",
                                             !.queue = IF @ = <<>> THEN @
                                                       ELSE Tail(@),
                                             !.current_unit = to_name,
                                             !.cur_value = search.value]
                 /\ UNCHANGED <<called, result>>
       ELSE LET current_unit == Head(search.queue)
                new == Unvisited(edges, current_unit, search.visited)
            IN  /\ \E ord \in Orders(new) :
                      search' = [search EXCEPT
                          !.queue = Tail(@) \o ord,
                          !.visited = @ \cup new,
                          !.parents = [x \in DOMAIN @ \cup new |->
                                          IF x \in new THEN current_unit
                                          ELSE @[x]],
                          !.pushed = @ \o ord]
                /\ UNCHANGED <<called, result>>

\* one iteration of the parent-chain walk, or its exit
walk_step ==
    /\ search.pc = "walk"
    /\ UNCHANGED <<graph, edge_calls>>
    /\ IF search.current_unit \in DOMAIN search.parents
       THEN LET parent_unit == search.parents[search.current_unit] IN
            IF /\ parent_unit \in DOMAIN edges
               /\ search.current_unit \in DOMAIN edges[parent_unit]
            THEN /\ search' = [search EXCEPT
                        !.stack = Append(@, edges[parent_unit][search.current_unit]),
                        !.current_unit = parent_unit]
                 /\ UNCHANGED <<called, result>>
            ELSE Return(Err("MissingConversionFactor"))
       ELSE /\ search' = [search EXCEPT !.pc = "apply"]
            /\ UNCHANGED <<called, result>>

\* one iteration of the pop loop, or its exit and the return of the value
apply_step ==
    /\ search.pc = "apply"
    /\ UNCHANGED <<graph, edge_calls>>
    /\ IF search.stack # <<>>
       THEN LET factor == search.stack[Len(search.stack)] IN
            /\ search' = [search EXCEPT
                   !.stack = SubSeq(@, 1, Len(@) - 1),
                   !.cur_value = RAdd(RMul(@, factor.scale), factor.offset)]
            /\ UNCHANGED <<called, result>>
       ELSE Return(OkVal(search.cur_value))

\* faulty variant of UnitsFormattedOutcomes: intermediate units are listed too
UnitsFormattedUnfiltered(n2u) ==
    {[i \in 1..Len(ord) |-> format_string(n2u[ord[i]])] : ord \in Orders(DOMAIN n2u)}

\* what units_formatted can return: one order per iteration order of the map
UnitsFormattedOutcomes(n2u) ==
    LET shown == {n \in DOMAIN n2u : ~n2u[n].intermediate} IN
    {[i \in 1..Len(ord) |-> format_string(n2u[ord[i]])] : ord \in Orders(shown)}

units_formatted ==
    /\ called' = "units_formatted"
    /\ UNCHANGED <<edge_calls, search>>
    /\ \E l \in UnitsFormattedOutcomes(name_to_units) : result' = OkList(l)
    /\ UNCHANGED graph

\* the conversion graph: units with at most one alias, edges, conversions
Next ==
    \/ \E name \in Names, aliases \in SingleAliasLists :
           add_unit(name, aliases, FALSE)
    \/ \E from \in Names, to \in Names, scale \in Scales, offset \in Offsets :
           add_edge(from, to, scale, offset)
    \/ \E from \in Names, to \in Names, value \in Values :
           convert(from, to, value)

Spec == Init /\ [][Next]_vars

\* the unit registry: longer alias lists, intermediate units, the listing
NextRegistry ==
    \/ \E name \in Strings, aliases \in AliasLists, intermediate \in BOOLEAN :
           add_unit(name, aliases, intermediate)
    \/ \E name \in Strings : contains_unit(name)
    \/ units_formatted

SpecRegistry == Init /\ [][NextRegistry]_vars

\* units without aliases, edges and conversions
NextPaths ==
    \/ \E name \in Names : add_unit(name, <<>>, FALSE)
    \/ \E from \in Names, to \in Names, scale \in Scales, offset \in Offsets :
           add_edge(from, to, scale, offset)
    \/ \E from \in Names, to \in Names, value \in Values :
           convert(from, to, value)

SpecPaths == Init /\ [][NextPaths]_vars

\* the edge table alone: units with at most one alias, and every add_edge
\* call, the tokens of which may be empty
NextEdges ==
    \/ \E name \in Names, aliases \in SingleAliasLists :
           add_unit(name, aliases, FALSE)
    \/ \E from \in Strings, to \in Strings, scale \in Scales, offset \in Offsets :
           add_edge(from, to, scale, offset)

SpecEdges == Init /\ [][NextEdges]_vars

\* four units without aliases joined by scale edges, and the conversions
\* between them
NextRoutes ==
    \/ \E name \in MoreNames : add_unit(name, <<>>, FALSE)
    \/ \E from \in MoreNames, to \in MoreNames, scale \in StepScales :
           add_scale_edge(from, to, scale)
    \/ \E from \in MoreNames, to \in MoreNames, value \in Values :
           convert(from, to, value)

SpecRoutes == Init /\ [][NextRoutes]_vars

\* convert running step by step on graphs of units without aliases; a call
\* that has started keeps running until it returns
NextSteps ==
    \/ \E name \in Names : add_unit(name, <<>>, FALSE)
    \/ \E from \in Names, to \in Names, scale \in StepScales :
           add_edge(from, to, scale, Zero)
    \/ \E from \in Names, to \in Names, value \in Values :
           convert_call(from, to, value)
    \/ bfs_step
    \/ walk_step
    \/ apply_step

SpecSteps ==
    /\ Init
    /\ [][NextSteps]_vars
    /\ WF_vars(bfs_step)
    /\ WF_vars(walk_step)
    /\ WF_vars(apply_step)

----------------------------------------------------------------------------
(* Properties of the unit registry, checked under SpecRegistry *)

\* C1: whenever add_unit returns DuplicateAlias because a string of the new
\* unit was already in the alias index, the unit table and the alias index
\* are exactly as they were before the call.
AddUnitAtomicOnDuplicateAlias ==
    [][( /\ called' = "add_unit"
         /\ result'.tag = "DuplicateAlias"
         /\ result'.s1 \in DOMAIN aliases_to_name )
          => UNCHANGED <<name_to_units, aliases_to_name>>]_vars

\* some string already in the alias index is the name or one of the aliases
CollidesWithIndex(name, aliases) ==
    \/ name \in DOMAIN aliases_to_name
    \/ \E k \in 1..Len(aliases) : aliases[k] \in DOMAIN aliases_to_name

\* C5: add_unit with a registered canonical name returns DuplicateUnit;
\* add_unit with an unregistered non-empty name and non-empty aliases, one of
\* which (or the name) is already in the alias index, returns DuplicateAlias.
DuplicateRegistrationRejected ==
    \A name \in Strings, aliases \in AliasLists, intermediate \in BOOLEAN :
        LET o == AddUnitOutcome(name_to_units, aliases_to_name,
                                name, aliases, intermediate)
        IN  /\ name \in DOMAIN name_to_units
                 => o.result = Err1("DuplicateUnit", name)
            /\ ( /\ name # ""
                 /\ name \notin DOMAIN name_to_units
                 /\ ~Contains(aliases, "")
                 /\ CollidesWithIndex(name, aliases) )
                 => o.result.tag = "DuplicateAlias"

\* C5 witness: add_unit was refused because a string of the new unit is the
\* canonical name of a registered unit.
DuplicateAliasOfCanonicalName ==
    /\ called = "add_unit"
    /\ result.tag = "DuplicateAlias"
    /\ result.s1 \in DOMAIN name_to_units

\* the entries of a listing that start with the name n
EntriesOf(l, n) == {i \in 1..Len(l) : l[i][1] = n}

\* C9: units_formatted returns exactly one entry for each registered unit
\* with intermediate = false and none for a unit with intermediate = true.
ListingExcludesIntermediates ==
    \A l \in UnitsFormattedOutcomes(name_to_units) :
        /\ \A n \in DOMAIN name_to_units :
              Cardinality(EntriesOf(l, n)) =
                  IF name_to_units[n].intermediate THEN 0 ELSE 1
        /\ \A i \in 1..Len(l) : l[i][1] \in DOMAIN name_to_units

\* C9 witness: a listing of one entry was returned while an intermediate unit
\* and a listed unit are registered.
ListingWithIntermediateHidden ==
    /\ called = "units_formatted"
    /\ Len(result.list) = 1
    /\ \E n \in DOMAIN name_to_units : name_to_units[n].intermediate
    /\ \E n \in DOMAIN name_to_units : ~name_to_units[n].intermediate

\* the display string the listing format prescribes for a unit
PrescribedDisplay(unit) ==
    IF \E i \in 1..Len(unit.aliases) : unit.aliases[i] # unit.name
    THEN <<unit.name, " (">> \o Join(unit.aliases, ", ") \o <<")">>
    ELSE <<unit.name>>

\* C10: every entry of a listing is "<name> (<alias1>, <alias2>, ...)" when
\* the unit has aliases beyond its bare name, and just "<name>" when it has
\* no alias other than its own name.
ListingFormat ==
    called = "units_formatted" =>
        \A i \in 1..Len(result.list) :
            result.list[i] = PrescribedDisplay(name_to_units[result.list[i][1]])

\* C12: contains_unit(token) is true if and only if token resolves to the
\* canonical name of a unit that is present in the unit table.
ContainsUnitSound ==
    \A token \in Strings :
        ContainsUnitOutcome(aliases_to_name, token) =
            OkBool(/\ token \in DOMAIN aliases_to_name
                   /\ aliases_to_name[token] \in DOMAIN name_to_units)

----------------------------------------------------------------------------
(* Properties of the conversion graph, checked under Spec *)

Resolves(token) == token \in DOMAIN aliases_to_name

\* the edge table holds a factor for the ordered pair (a, b)
HasEdge(a, b) == a \in DOMAIN edges /\ b \in DOMAIN edges[a]

Converted(from, to, value) ==
    ConvertOutcomes(aliases_to_name, edges, from, to, value)

\* C2: for units A and B joined by a successful add_edge, and every value x,
\* convert(B, A, convert(A, B, x)) returns x exactly.
RoundTrip ==
    \A A \in Names, B \in Names :
        (Resolves(A) /\ Resolves(B)
            /\ HasEdge(aliases_to_name[A], aliases_to_name[B])) =>
        \A x \in Values :
            \A r1 \in Converted(A, B, x) :
                /\ r1.tag = "Ok"
                /\ \A r2 \in Converted(B, A, r1.val) : r2 = OkVal(x)

\* C2 witness: a conversion returned one half, which only the inverse of a
\* scale-2 edge between two distinct units produces.
ConvertedThroughInverse ==
    /\ called = "convert"
    /\ result = OkVal(<<1, 2>>)
    /\ \E a \in DOMAIN edges : \E b \in DOMAIN edges[a] :
          a # b /\ edges[a][b] = ConversionFactor(Two, Zero)

\* a scale edge A->B followed by an offset edge B->C
ScaleThenOffset(a, b, c) ==
    /\ HasEdge(a, b) /\ edges[a][b].offset = Zero
    /\ HasEdge(b, c) /\ edges[b][c].scale = One

\* convert(A, C, x) = x*s1 + o2 and convert(C, A, y) = (y - o2)/s1
ComposedResults(A, B, C) ==
    LET s1 == edges[aliases_to_name[A]][aliases_to_name[B]].scale
        o2 == edges[aliases_to_name[B]][aliases_to_name[C]].offset
    IN  /\ \A x \in Values :
              Converted(A, C, x) = {OkVal(RAdd(RMul(x, s1), o2))}
        /\ \A y \in Values :
              Converted(C, A, y) = {OkVal(RDiv(RAdd(y, RNeg(o2)), s1))}

\* C3 as stated: if A->B carries (s1, 0) and B->C carries (1, o2), for three
\* distinct units, then convert(A, C, x) = x*s1 + o2 and
\* convert(C, A, y) = (y - o2)/s1.
ComposedPathAlways ==
    \A A \in Names, B \in Names, C \in Names :
        ( /\ Resolves(A) /\ Resolves(B) /\ Resolves(C)
          /\ aliases_to_name[A] # aliases_to_name[B]
          /\ aliases_to_name[B] # aliases_to_name[C]
          /\ aliases_to_name[A] # aliases_to_name[C]
          /\ ScaleThenOffset(aliases_to_name[A], aliases_to_name[B],
                             aliases_to_name[C]) )
        => ComposedResults(A, B, C)

\* no edge joins a and c, and b is the only unit adjacent to both
OnlyPathVia(a, b, c) ==
    /\ ~HasEdge(a, c)
    /\ \A d \in DOMAIN edges : (HasEdge(a, d) /\ HasEdge(d, c)) => d = b

\* C3 amended: if A->B carries (s1, 0) and B->C carries (1, o2), no edge joins
\* A and C, and B is the only unit adjacent to both, then
\* convert(A, C, x) = x*s1 + o2 and convert(C, A, y) = (y - o2)/s1.
ComposedPathWhenOnlyPath ==
    \A A \in Names, B \in Names, C \in Names :
        ( /\ Resolves(A) /\ Resolves(B) /\ Resolves(C)
          /\ ScaleThenOffset(aliases_to_name[A], aliases_to_name[B],
                             aliases_to_name[C])
          /\ OnlyPathVia(aliases_to_name[A], aliases_to_name[B],
                         aliases_to_name[C]) )
        => ComposedResults(A, B, C)

\* C3 witness: with A->B (2, 0) and B->C (1, 1) the only path between three
\* distinct units, a conversion returned 3 = 1*2 + 1.
ConvertedAlongComposedPath ==
    /\ called = "convert"
    /\ result = OkVal(<<3, 1>>)
    /\ \E a \in DOMAIN edges, b \in DOMAIN edges, c \in DOMAIN edges :
          /\ a # b /\ b # c /\ a # c
          /\ ScaleThenOffset(a, b, c)
          /\ OnlyPathVia(a, b, c)
          /\ edges[a][b].scale = Two
          /\ edges[b][c].offset = One

\* C4: whenever the table holds (s, o) for the ordered pair (a, b), it holds
\* (1/s, -o) for (b, a), the two units being distinct or the same.
EdgeTableSymmetric ==
    \A a \in DOMAIN edges : \A b \in DOMAIN edges[a] :
        /\ HasEdge(b, a)
        /\ edges[b][a] = ConversionFactor(RDiv(One, edges[a][b].scale),
                                          RNeg(edges[a][b].offset))

\* C6: add_edge returns ConversionRateZero whenever scale = 0, and
\* ConversionRateBothValues whenever scale is neither 0 nor 1 and offset # 0,
\* whether or not from and to resolve.
EdgeRatesValidatedFirst ==
    \A from \in Strings, to \in Strings, scale \in Scales, offset \in Offsets :
        LET o == AddEdgeOutcome(aliases_to_name, edges, from, to, scale, offset)
        IN  /\ scale = Zero => o.result = Err("ConversionRateZero")
            /\ (scale # Zero /\ scale # One /\ offset # Zero)
                 => o.result = Err("ConversionRateBothValues")

\* C6 witness: add_edge returned ConversionRateZero while no token resolves.
ZeroRateBeforeAnyUnit ==
    /\ called = "add_edge"
    /\ result = Err("ConversionRateZero")
    /\ DOMAIN aliases_to_name = {}

\* the units reachable from the units in S along the edge table
RECURSIVE ReachableFrom(_)
ReachableFrom(S) ==
    LET T == S \cup UNION {DOMAIN edges[a] : a \in S \cap DOMAIN edges}
    IN  IF T = S THEN S ELSE ReachableFrom(T)

\* C7: for tokens X and Y that resolve to two distinct units with no path
\* between them, convert(X, Y, v) returns ConversionPathNotFound(X, Y) and
\* nothing else.
DisconnectedNotFound ==
    \A X \in Names, Y \in Names :
        ( /\ Resolves(X) /\ Resolves(Y)
          /\ aliases_to_name[X] # aliases_to_name[Y]
          /\ aliases_to_name[Y] \notin ReachableFrom({aliases_to_name[X]}) )
        => \A v \in Values :
              Converted(X, Y, v) = {Err2("ConversionPathNotFound", X, Y)}

\* C7 witness: convert returned ConversionPathNotFound for two units that have
\* no adjacency entry, the first named by an alias.
NotFoundWithoutAdjacency ==
    /\ called = "convert"
    /\ result.tag = "ConversionPathNotFound"
    /\ aliases_to_name[result.s1] # result.s1
    /\ aliases_to_name[result.s1] \notin DOMAIN edges
    /\ aliases_to_name[result.s2] \notin DOMAIN edges

\* C8: for two tokens that resolve to the same unit, convert returns the
\* input value unchanged, whatever edges the unit has.
IdentityConversion ==
    \A from \in Names, to \in Names :
        (Resolves(from) /\ Resolves(to)
            /\ aliases_to_name[from] = aliases_to_name[to]) =>
        \A v \in Values : Converted(from, to, v) = {OkVal(v)}

\* C8 witness: a conversion succeeded while the only edge of the table is an
\* edge from a unit, which has an alias, to itself.
IdentityWithSelfEdge ==
    /\ called = "convert"
    /\ result = OkVal(One)
    /\ \E X \in Names :
          /\ DOMAIN edges = {X}
          /\ DOMAIN edges[X] = {X}
          /\ \E t \in DOMAIN aliases_to_name : t # X /\ aliases_to_name[t] = X

\* C14: no convert call returns MissingConversionFactor: the walk finds a
\* factor in the edge table for every parent -> child pair the BFS recorded
\* on the way to the target.
NoMissingConversionFactor ==
    called = "convert" => result.tag # "MissingConversionFactor"

\* C14 witness: a conversion returned 4, the value 1 taken along two
\* scale-2 hops, so the walk looked up the factors of two recorded pairs.
ConvertedAlongTwoRecordedPairs ==
    /\ called = "convert"
    /\ result = OkVal(<<4, 1>>)

----------------------------------------------------------------------------
(* Properties of the path convert follows, checked under SpecPaths *)

\* the paths of k hops from a to b in the edge table
PathsOfLen(a, b, k) ==
    {p \in [1..(k + 1) -> DOMAIN edges] :
        /\ p[1] = a
        /\ p[k + 1] = b
        /\ \A i \in 1..k : HasEdge(p[i], p[i + 1])}

\* v transformed by value*scale + offset along the hops i, i+1, ... of p
RECURSIVE Along(_, _, _)
Along(p, i, v) ==
    IF i >= Len(p) THEN v
    ELSE Along(p, i + 1, RAdd(RMul(v, edges[p[i]][p[i + 1]].scale),
                              edges[p[i]][p[i + 1]].offset))

\* the paths from a to b with the fewest hops, given that none has fewer
\* than k hops
RECURSIVE ShortestPaths(_, _, _)
ShortestPaths(a, b, k) ==
    IF k > Cardinality(DOMAIN edges) THEN {}
    ELSE LET paths == PathsOfLen(a, b, k) IN
         IF paths # {} THEN paths ELSE ShortestPaths(a, b, k + 1)

\* C15: when convert(from, to, v) succeeds for distinct units, the result is
\* v transformed by value*scale + offset hop by hop, from the source to the
\* target, along a path of the edge table with the fewest hops.
ShortestPathComposition ==
    \A from \in Names, to \in Names :
        ( /\ Resolves(from) /\ Resolves(to)
          /\ aliases_to_name[from] # aliases_to_name[to] ) =>
        LET shortest == ShortestPaths(aliases_to_name[from],
                                      aliases_to_name[to], 1)
        IN  \A v \in Values : \A r \in Converted(from, to, v) :
                r.tag = "Ok" => \E p \in shortest : r.val = Along(p, 1, v)

\* C15 witness: a conversion returned 3/2 = 1 * 1/2 + 1 where a (1/2, 0) edge
\* is followed by a (1, 1) edge and no edge joins the two ends.
ConvertedScaleThenOffsetHops ==
    /\ called = "convert"
    /\ result = OkVal(<<3, 2>>)
    /\ \E a \in DOMAIN edges, b \in DOMAIN edges, c \in DOMAIN edges :
          /\ a # b /\ b # c /\ a # c
          /\ ~HasEdge(a, c)
          /\ edges[a][b] = ConversionFactor(<<1, 2>>, Zero)
          /\ edges[b][c] = ConversionFactor(One, One)

----------------------------------------------------------------------------
(* Properties of add_edge and the edge table, checked under SpecEdges *)

\* C16 as stated: every factor held in the edge table has scale # 0 and is
\* either a non-unity scale with zero offset or a unity scale with a non-zero
\* offset.
StoredFactorsOneOrOther ==
    \A a \in DOMAIN edges : \A b \in DOMAIN edges[a] :
        /\ edges[a][b].scale # Zero
        /\ \/ edges[a][b].scale # One /\ edges[a][b].offset = Zero
           \/ edges[a][b].scale = One /\ edges[a][b].offset # Zero

\* C16 amended: every factor held in the edge table has scale # 0 and has a
\* unity scale or a zero offset (or both: the identity factor (1, 0)).
StoredFactorsNotBoth ==
    \A a \in DOMAIN edges : \A b \in DOMAIN edges[a] :
        /\ edges[a][b].scale # Zero
        /\ edges[a][b].scale = One \/ edges[a][b].offset = Zero

\* C16 witness: add_edge succeeded and the table holds an identity factor,
\* the inverse of a scale and the inverse of an offset.
StoredIdentityAndInverses ==
    /\ called = "add_edge"
    /\ result = Ok
    /\ \E a \in DOMAIN edges : \E b \in DOMAIN edges[a] :
          edges[a][b] = ConversionFactor(One, Zero)
    /\ \E a \in DOMAIN edges : \E b \in DOMAIN edges[a] :
          edges[a][b] = ConversionFactor(<<1, 2>>, Zero)
    /\ \E a \in DOMAIN edges : \E b \in DOMAIN edges[a] :
          edges[a][b] = ConversionFactor(One, <<-1, 1>>)

\* C17: add_edge(A, B, s, o) with s # 0 and s = 1 or o = 0, between two
\* distinct units that already have an edge, returns Ok; the table then holds
\* (s, o) for A -> B and (1/s, -o) for B -> A, and the same factor as before
\* for every other ordered pair.
SilentOverwrite ==
    \A A \in Names, B \in Names, s \in Scales, o \in Offsets :
        ( /\ Resolves(A) /\ Resolves(B)
          /\ aliases_to_name[A] # aliases_to_name[B]
          /\ \/ HasEdge(aliases_to_name[A], aliases_to_name[B])
             \/ HasEdge(aliases_to_name[B], aliases_to_name[A])
          /\ s # Zero
          /\ s = One \/ o = Zero ) =>
        LET a == aliases_to_name[A]
            b == aliases_to_name[B]
            after == AddEdgeOutcome(aliases_to_name, edges, A, B, s, o)
        IN  /\ after.result = Ok
            /\ DOMAIN after.edges = DOMAIN edges
            /\ \A x \in DOMAIN edges : DOMAIN after.edges[x] = DOMAIN edges[x]
            /\ after.edges[a][b] = ConversionFactor(s, o)
            /\ after.edges[b][a] = ConversionFactor(RDiv(One, s), RNeg(o))
            /\ \A x \in DOMAIN edges : \A y \in DOMAIN edges[x] :
                  (<<x, y>> # <<a, b>> /\ <<x, y>> # <<b, a>>)
                      => after.edges[x][y] = edges[x][y]

\* C17 witness: add_edge has succeeded, another add_edge call can follow, and
\* a unit has edges to the two other units, so that overwriting one of them
\* has other pairs to leave alone.
EdgeToOverwriteBesideOthers ==
    /\ called = "add_edge"
    /\ result = Ok
    /\ edge_calls < MaxEdgeCalls
    /\ \E a \in DOMAIN edges : \E b \in DOMAIN edges[a], c \in DOMAIN edges[a] :
          a # b /\ a # c /\ b # c

\* C18: whenever add_edge returns an error, the edge table, the alias index
\* and the unit table are as they were before the call; no empty adjacency
\* entry is created.
FailedAddEdgeNoEffect ==
    [][(called' = "add_edge" /\ result' # Ok) => UNCHANGED graph]_vars

\* C18 witness: add_edge returned UnitNotFound for one token while every
\* other name resolves, and the edge table has no entry at all.
UnitNotFoundLeftNoEntry ==
    /\ called = "add_edge"
    /\ result.tag = "UnitNotFound"
    /\ DOMAIN aliases_to_name = Names \ {result.s1}
    /\ DOMAIN edges = {}

----------------------------------------------------------------------------
(* Properties of graphs with several routes, checked under SpecRoutes *)

\* C13: for every graph and every query convert(from, to, v), the returned
\* value is the same for every neighbour iteration order of the adjacency
\* maps.
PathChoiceIndependent ==
    \A from \in MoreNames, to \in MoreNames, v \in Values :
        \A r1, r2 \in Converted(from, to, v) : r1 = r2

----------------------------------------------------------------------------
(* Properties of a running convert call, checked under SpecSteps *)

\* no unit was given to queue.push_back twice
EnqueuedOnce ==
    \A i, j \in 1..Len(search.pushed) :
        i # j => search.pushed[i] # search.pushed[j]

\* the parent-chain walk has ended, and it ended at the source
WalkEndsAtSource ==
    search.pc = "apply" => search.current_unit = aliases_to_name[search.from]

\* C11: every convert call returns, in graphs with cycles and self-loop
\* edges too; the BFS enqueues each unit at most once and the parent-chain
\* walk from the target ends at the source.
ConvertTerminates ==
    /\ [](EnqueuedOnce /\ WalkEndsAtSource)
    /\ (search.pc # "idle") ~> (search.pc = "idle")

\* C11 witness: the walk of a two-hop path has ended in a graph where a unit
\* has an edge to itself and every edge has its reverse.
WalkEndedInCyclicGraph ==
    /\ search.pc = "apply"
    /\ Len(search.stack) = 2
    /\ \E a \in DOMAIN edges : HasEdge(a, a)
    /\ Len(search.pushed) = 3

====
